---- MODULE Spec2Model ----
(***************************************************************************)
(* Run-time model of the TypeScript practice snippets: the identity        *)
(* functions, the generic containers (GenericBox, KeyValuePair,            *)
(* GenericNumber), the class fields of Point / Point1, the aliased Person  *)
(* object, myForEach, longest, minimumLength, makeDate, the readonly       *)
(* fields of Greeter and Home, and getArea.                                *)
(*                                                                         *)
(* Type annotations are erased when the sources are compiled (the emitted  *)
(* JavaScript of the class snippet is in the repository and still holds    *)
(* pt.y = 'hello'), so an annotation never guards an action.  The type a   *)
(* container was declared with is kept in the history variable tbound so   *)
(* that it can be compared with what the container holds.                  *)
(*                                                                         *)
(* Every snippet is a standalone example: a behaviour exercises the        *)
(* operations of one snippet, chosen in Init.                              *)
(***************************************************************************)
EXTENDS Integers, Sequences, FiniteSets, TLC

VARIABLES
    snippet,    \* the example being run
    heap,       \* allocation site -> the object allocated there, or NoObj
    env,        \* program variable -> the value it is bound to
    tbound,     \* history: allocation site -> declared type of each value slot
    supplied,   \* history: allocation site -> values most recently supplied
    console,    \* lines written by console.log, oldest first
    call,       \* the most recent call or statement and how it ended
    fePc,       \* myForEach: "idle", "loop" or "done"
    feArr,      \* myForEach: the elements of arr
    feI,        \* myForEach: the loop variable i
    feCb,       \* myForEach: the callback passed in
    feArr0,     \* history: the elements of arr when myForEach was called
    feCalls     \* history: the callback invocations made so far

feVars == <<fePc, feArr, feI, feCb, feArr0, feCalls>>

vars == <<snippet, heap, env, tbound, supplied, console, call, feVars>>

(***************************************************************************)
(* Bounds                                                                  *)
(***************************************************************************)
MaxLen == 3         \* longest array literal passed in
MaxGrow == 2        \* elements a callback may append to arr in one run
MaxConsole == 1     \* lines the console may hold
MaxAge == 43        \* writablePerson.age++ is applied while age < MaxAge
MaxVisits == 2      \* calls of visitForBirthday in one run
MaxSide == 3        \* largest radius or sideLength of a shape

(***************************************************************************)
(* JavaScript values                                                       *)
(***************************************************************************)
Undefined == [tag |-> "undefined"]

Num(n) == [tag |-> "number", num |-> n]

Str(s) == [tag |-> "string", str |-> s]

Ref(site) == [tag |-> "object", ref |-> site]

Fn(name) == [tag |-> "function", fn |-> name]

\* typeof v
TypeOf(v) == v.tag

\* the number literals the source assigns (pt.x = 0, pt1.x = 1)
Nums == {0, 1}

\* the string literal the source assigns (pt.y = 'hello', contents: "hello")
Strs == {"hello"}

\* the defined primitive values handed to the operations; no call or
\* assignment in the source passes undefined or null
InputValues == {Num(n) : n \in Nums} \cup {Str(s) : s \in Strs}

Digit(d) ==
    CASE d = 0 -> "0" [] d = 1 -> "1" [] d = 2 -> "2" [] d = 3 -> "3"
      [] d = 4 -> "4" [] d = 5 -> "5" [] d = 6 -> "6" [] d = 7 -> "7"
      [] d = 8 -> "8" [] d = 9 -> "9"

RECURSIVE NumberToString(_)
NumberToString(n) ==
    IF n < 10 THEN Digit(n)
    ELSE NumberToString(n \div 10) \o Digit(n % 10)

\* the string a template literal `${v}` or console.log(v) produces
StringOf(v) ==
    CASE v.tag = "undefined" -> "undefined"
      [] v.tag = "number" -> NumberToString(v.num)
      [] v.tag = "string" -> v.str
      [] OTHER -> "[object Object]"

(***************************************************************************)
(* Heap, variables                                                         *)
(***************************************************************************)
Snippets == {"identity", "GenericBox", "KeyValuePair", "GenericNumber", "Point", "Person",
             "myForEach", "longest", "minimumLength", "makeDate",
             "Greeter", "Home", "getArea"}

BoxSites == {"boxA", "boxB"}

KvpSites == {"kvp1", "kvp2"}

NumericSites == {"myGenericNumber", "stringNumeric"}

PointSites == {"pt", "pt1"}

LiteralSites == {"arr", "obj"}

\* the two array literals of longest([1, 2], [1, 2, 3])
LongestSites == {"a", "b"}

\* the array literal handed to minimumLength, the literal { length: minimum }
\* it may return, and the array arr.slice(0) creates
MinimumLengthSites == {"lengthArg", "lengthOnly", "sliced"}

\* a Home, the resident it is created with, and the object literal of evict
HomeSites == {"home", "resident", "evictor"}

Sites == BoxSites \cup KvpSites \cup NumericSites \cup PointSites
            \cup {"writablePerson"} \cup LiteralSites \cup LongestSites
            \cup MinimumLengthSites \cup {"date", "g"} \cup HomeSites
            \cup {"readonlyPerson", "shape"}
    \* "readonlyPerson" would hold an object only if the declaration copied
    \* writablePerson; "shape" is the object handed to getArea

PersonVars == {"writablePerson", "readonlyPerson"}

VarNames == BoxSites \cup KvpSites \cup NumericSites \cup PointSites \cup PersonVars
                \cup {"arr", "g"}

NoObj == [class |-> "none"]

Allocated(h, site) == h[site] # NoObj

\* the object a bound variable refers to
Deref(e, var) == e[var].ref

Declared(e, var) == e[var] # Undefined

\* the value slots of an object, in declaration order
Stored(h, site) ==
    CASE h[site].class = "GenericBox" -> <<h[site].contents>>
      [] h[site].class = "KeyValuePair" -> <<h[site].key, h[site].val>>
      [] h[site].class = "GenericNumber" -> <<h[site].zeroValue>>
      [] h[site].class \in {"Point", "Point1"} -> <<h[site].x, h[site].y>>
      [] h[site].class = "Person" -> <<h[site].name, h[site].age>>
      [] h[site].class = "Greeter" -> <<h[site].name>>
      [] OTHER -> <<>>

NoCall == [op |-> "none", via |-> "", args |-> <<>>, ret |-> Undefined, threw |-> FALSE]

Returned(op, var, args, ret) ==
    [op |-> op, via |-> var, args |-> args, ret |-> ret, threw |-> FALSE]

Threw(op, var, args) ==
    [op |-> op, via |-> var, args |-> args, ret |-> Undefined, threw |-> TRUE]

NoSupply == [vals |-> <<>>, sets |-> FALSE]

Init ==
    /\ snippet \in Snippets
    /\ heap = [s \in Sites |-> NoObj]
    /\ env = [x \in VarNames |-> Undefined]
    /\ tbound = [s \in Sites |-> <<>>]
    /\ supplied = [s \in Sites |-> NoSupply]
    /\ console = <<>>
    /\ call = NoCall
    /\ fePc = "idle"
    /\ feArr = <<>>
    /\ feI = 0
    /\ feCb = "none"
    /\ feArr0 = <<>>
    /\ feCalls = <<>>

\* console.log(line)
ConsoleLog(c, line) == Append(c, line)

(***************************************************************************)
(* The identity functions                                                  *)
(***************************************************************************)
\* the array literals [], [1], [1, 2], [1, 2, 3], ...
ArrayInputs == {[k \in 1..n |-> Num(k)] : n \in 0..MaxLen}

\* lengths given to the object literal { length: 10, value: 3 }
LengthInputs == Nums \cup {10}

\* the array literal [1, 2, 3]
ArrayObject(elems) == [class |-> "Array", elems |-> elems]

\* the object literal { length: 10, value: 3 }
LengthwiseObject(n) == [class |-> "Object", length |-> Num(n), value |-> Num(3)]

\* what may be passed to an identity function: a primitive, or a reference
\* to a literal that has been evaluated
IdentityArgs(h) == InputValues \cup {Ref(s) : s \in {t \in LiteralSites : Allocated(h, t)}}

\* every value an identity function may ever be handed
ArgValues == InputValues \cup {Ref(s) : s \in LiteralSites}

\* arg.length
LengthOf(h, arg) ==
    CASE arg.tag = "string" -> Num(Len(arg.str))
      [] arg.tag = "object" /\ h[arg.ref].class = "Array" -> Num(Len(h[arg.ref].elems))
      [] arg.tag = "object" /\ h[arg.ref].class = "Object" -> h[arg.ref].length
      [] OTHER -> Undefined

\* the arguments that satisfy Type extends Lengthwise
Lengthwise(h) == {a \in IdentityArgs(h) : LengthOf(h, a) # Undefined}

Arrays(h) == {a \in IdentityArgs(h) : a.tag = "object" /\ h[a.ref].class = "Array"}

numberIdentity(arg) == arg

anyIdentity(arg) == arg

\* return; in place of return arg;
genericIdentity_NoReturn(arg) == Undefined

genericIdentity(arg) == arg

identity(arg) == arg

identityTwo(arg) == arg

\* the logging functions without their return arg;
loggingIdentity_NoReturn(arg) == Undefined

\* the value loggingIdentity and loggingIdentityLengthOnly return
loggingIdentity(arg) == arg

\* the line loggingIdentity and loggingIdentityLengthOnly print
LengthLine(h, arg) == StringOf(LengthOf(h, arg))

EvalArrayLiteral(elems) ==
    /\ snippet = "identity"
    /\ ~Allocated(heap, "arr")
    /\ heap' = [heap EXCEPT !["arr"] = ArrayObject(elems)]
    /\ call' = Returned("[]", "", <<>>, Ref("arr"))
    /\ UNCHANGED feVars
    /\ UNCHANGED <<snippet, env, tbound, supplied, console>>

EvalObjectLiteral(n) ==
    /\ snippet = "identity"
    /\ ~Allocated(heap, "obj")
    /\ heap' = [heap EXCEPT !["obj"] = LengthwiseObject(n)]
    /\ call' = Returned("{}", "", <<>>, Ref("obj"))
    /\ UNCHANGED feVars
    /\ UNCHANGED <<snippet, env, tbound, supplied, console>>

CallNumberIdentity(arg) ==
    /\ snippet = "identity"
    /\ arg \in IdentityArgs(heap)
    /\ call' = Returned("numberIdentity", "", <<arg>>, numberIdentity(arg))
    /\ UNCHANGED feVars
    /\ UNCHANGED <<snippet, heap, env, tbound, supplied, console>>

CallAnyIdentity(arg) ==
    /\ snippet = "identity"
    /\ arg \in IdentityArgs(heap)
    /\ call' = Returned("anyIdentity", "", <<arg>>, anyIdentity(arg))
    /\ UNCHANGED feVars
    /\ UNCHANGED <<snippet, heap, env, tbound, supplied, console>>

CallGenericIdentity(arg) ==
    /\ snippet = "identity"
    /\ arg \in IdentityArgs(heap)
    /\ call' = Returned("genericIdentity", "", <<arg>>, genericIdentity(arg))
    /\ UNCHANGED feVars
    /\ UNCHANGED <<snippet, heap, env, tbound, supplied, console>>

CallIdentity(arg) ==
    /\ snippet = "identity"
    /\ arg \in IdentityArgs(heap)
    /\ call' = Returned("identity", "", <<arg>>, identity(arg))
    /\ UNCHANGED feVars
    /\ UNCHANGED <<snippet, heap, env, tbound, supplied, console>>

CallIdentityTwo(arg) ==
    /\ snippet = "identity"
    /\ arg \in IdentityArgs(heap)
    /\ call' = Returned("identityTwo", "", <<arg>>, identityTwo(arg))
    /\ UNCHANGED feVars
    /\ UNCHANGED <<snippet, heap, env, tbound, supplied, console>>

CallLoggingIdentity(arg) ==
    /\ snippet = "identity"
    /\ arg \in Arrays(heap)
    /\ Len(console) < MaxConsole
    /\ console' = ConsoleLog(console, LengthLine(heap, arg))
    /\ call' = Returned("loggingIdentity", "", <<arg>>, loggingIdentity(arg))
    /\ UNCHANGED feVars
    /\ UNCHANGED <<snippet, heap, env, tbound, supplied>>

CallLoggingIdentityLengthOnly(arg) ==
    /\ snippet = "identity"
    /\ arg \in Lengthwise(heap)
    /\ Len(console) < MaxConsole
    /\ console' = ConsoleLog(console, LengthLine(heap, arg))
    /\ call' = Returned("loggingIdentityLengthOnly", "", <<arg>>, loggingIdentity(arg))
    /\ UNCHANGED feVars
    /\ UNCHANGED <<snippet, heap, env, tbound, supplied>>

(***************************************************************************)
(* GenericBox: let boxA: GenericBox<string> = { contents: "hello" }        *)
(***************************************************************************)
\* a box created empty
BoxLiteral_Empty(v) == [class |-> "GenericBox", contents |-> Undefined]

\* the object literal { contents: v }
BoxLiteral(v) == [class |-> "GenericBox", contents |-> v]

\* box.contents
GetContents(h, site) == h[site].contents

\* a setContents that assigns nothing
PutContents_Dropped(h, site, newContents) == h

\* box.contents = newContents
PutContents(h, site, newContents) ==
    [h EXCEPT ![site] = [@ EXCEPT !.contents = newContents]]

NewGenericBox(var, v) ==
    /\ snippet = "GenericBox"
    /\ ~Declared(env, var)
    /\ heap' = [heap EXCEPT ![var] = BoxLiteral(v)]
    /\ env' = [env EXCEPT ![var] = Ref(var)]
    /\ tbound' = [tbound EXCEPT ![var] = <<TypeOf(v)>>]
    /\ supplied' = [supplied EXCEPT ![var] = [vals |-> <<v>>, sets |-> FALSE]]
    /\ call' = Returned("GenericBox", var, <<v>>, Ref(var))
    /\ UNCHANGED feVars
    /\ UNCHANGED <<snippet, console>>

\* the expression statement boxA.contents;
ReadContents(var) ==
    /\ snippet = "GenericBox"
    /\ Declared(env, var)
    /\ call' = Returned("contents", var, <<>>, GetContents(heap, Deref(env, var)))
    /\ UNCHANGED feVars
    /\ UNCHANGED <<snippet, heap, env, tbound, supplied, console>>

\* function setContents<Type>(box: GenericBox<Type>, newContents: Type)
setContents(var, newContents) ==
    /\ snippet = "GenericBox"
    /\ Declared(env, var)
    /\ heap' = PutContents(heap, Deref(env, var), newContents)
    /\ supplied' = [supplied EXCEPT ![Deref(env, var)] =
                        [vals |-> <<newContents>>, sets |-> TRUE]]
    /\ call' = Returned("setContents", var, <<newContents>>, Undefined)
    /\ UNCHANGED feVars
    /\ UNCHANGED <<snippet, env, tbound, console>>

\* the overloaded setContents: function setContents(box: { contents: any },
\* newContents: any) behind its three declared signatures
setContentsOverloaded(var, newContents) ==
    /\ snippet = "GenericBox"
    /\ Declared(env, var)
    /\ heap' = PutContents(heap, Deref(env, var), newContents)
    /\ supplied' = [supplied EXCEPT ![Deref(env, var)] =
                        [vals |-> <<newContents>>, sets |-> TRUE]]
    /\ call' = Returned("setContentsOverloaded", var, <<newContents>>, Undefined)
    /\ UNCHANGED feVars
    /\ UNCHANGED <<snippet, env, tbound, console>>

(***************************************************************************)
(* class KeyValuePair<T, U>                                                *)
(***************************************************************************)
\* the type arguments of new KeyValuePair<number, string>() and
\* new KeyValuePair<string, string>()
KvpTypeArgs(var) ==
    IF var = "kvp1" THEN <<"number", "string">> ELSE <<"string", "string">>

\* fields initialised to an empty-string default
KvpObject_Defaulted == [class |-> "KeyValuePair", key |-> Str(""), val |-> Str("")]

\* new KeyValuePair(): neither private field has an initializer
KvpObject == [class |-> "KeyValuePair", key |-> Undefined, val |-> Undefined]

\* key and val kept in one place shared by every KeyValuePair
PutKeyValue_Shared(h, site, key, val) ==
    [s \in DOMAIN h |->
        IF h[s].class = "KeyValuePair"
        THEN [h[s] EXCEPT !.key = key, !.val = val]
        ELSE h[s]]

\* this.key = key; this.val = val;
PutKeyValue(h, site, key, val) ==
    [h EXCEPT ![site] = [@ EXCEPT !.key = key, !.val = val]]

\* `Key = ${this.key}, Val = ${this.val}`
DisplayLine(h, site) ==
    "Key = " \o StringOf(h[site].key) \o ", Val = " \o StringOf(h[site].val)

NewKeyValuePair(var) ==
    /\ snippet = "KeyValuePair"
    /\ ~Declared(env, var)
    /\ heap' = [heap EXCEPT ![var] = KvpObject]
    /\ env' = [env EXCEPT ![var] = Ref(var)]
    /\ tbound' = [tbound EXCEPT ![var] = KvpTypeArgs(var)]
    /\ supplied' = [supplied EXCEPT ![var] =
                        [vals |-> <<Undefined, Undefined>>, sets |-> FALSE]]
    /\ call' = Returned("KeyValuePair", var, <<>>, Ref(var))
    /\ UNCHANGED feVars
    /\ UNCHANGED <<snippet, console>>

setKeyValue(var, key, val) ==
    /\ snippet = "KeyValuePair"
    /\ Declared(env, var)
    /\ heap' = PutKeyValue(heap, Deref(env, var), key, val)
    /\ supplied' = [supplied EXCEPT ![Deref(env, var)] =
                        [vals |-> <<key, val>>, sets |-> TRUE]]
    /\ call' = Returned("setKeyValue", var, <<key, val>>, Undefined)
    /\ UNCHANGED feVars
    /\ UNCHANGED <<snippet, env, tbound, console>>

display(var) ==
    /\ snippet = "KeyValuePair"
    /\ Declared(env, var)
    /\ Len(console) < MaxConsole
    /\ console' = ConsoleLog(console, DisplayLine(heap, Deref(env, var)))
    /\ call' = Returned("display", var, <<>>, Undefined)
    /\ UNCHANGED feVars
    /\ UNCHANGED <<snippet, heap, env, tbound, supplied>>

(***************************************************************************)
(* class GenericNumber<NumType>                                            *)
(***************************************************************************)
\* new GenericNumber<number>() and new GenericNumber<string>()
NumericTypeArgs(var) ==
    IF var = "myGenericNumber" THEN <<"number">> ELSE <<"string">>

\* new GenericNumber(): zeroValue and add have no initializer
NumericObject == [class |-> "GenericNumber", zeroValue |-> Undefined, add |-> Undefined]

\* obj.zeroValue
GetZeroValue(h, site) == h[site].zeroValue

\* an assignment that clears the slot when handed the value it already holds
PutZeroValue_Toggle(h, site, v) ==
    [h EXCEPT ![site] = [@ EXCEPT !.zeroValue = IF @ = v THEN Undefined ELSE v]]

\* obj.zeroValue = v
PutZeroValue(h, site, v) == [h EXCEPT ![site] = [@ EXCEPT !.zeroValue = v]]

\* x + y of function (x, y) { return x + y; }
Plus(x, y) ==
    IF x.tag = "number" /\ y.tag = "number"
    THEN Num(x.num + y.num)
    ELSE Str(StringOf(x) \o StringOf(y))

NewGenericNumber(var) ==
    /\ snippet = "GenericNumber"
    /\ ~Declared(env, var)
    /\ heap' = [heap EXCEPT ![var] = NumericObject]
    /\ env' = [env EXCEPT ![var] = Ref(var)]
    /\ tbound' = [tbound EXCEPT ![var] = NumericTypeArgs(var)]
    /\ supplied' = [supplied EXCEPT ![var] = [vals |-> <<Undefined>>, sets |-> FALSE]]
    /\ call' = Returned("GenericNumber", var, <<>>, Ref(var))
    /\ UNCHANGED feVars
    /\ UNCHANGED <<snippet, console>>

AssignZeroValue(var, v) ==
    /\ snippet = "GenericNumber"
    /\ Declared(env, var)
    /\ heap' = PutZeroValue(heap, Deref(env, var), v)
    /\ supplied' = [supplied EXCEPT ![Deref(env, var)] =
                        [vals |-> <<v>>, sets |-> TRUE]]
    /\ call' = Returned("zeroValue=", var, <<v>>, Undefined)
    /\ UNCHANGED feVars
    /\ UNCHANGED <<snippet, env, tbound, console>>

ReadZeroValue(var) ==
    /\ snippet = "GenericNumber"
    /\ Declared(env, var)
    /\ call' = Returned("zeroValue", var, <<>>, GetZeroValue(heap, Deref(env, var)))
    /\ UNCHANGED feVars
    /\ UNCHANGED <<snippet, heap, env, tbound, supplied, console>>

\* obj.add = function (x, y) { return x + y; }
AssignAdd(var) ==
    /\ snippet = "GenericNumber"
    /\ Declared(env, var)
    /\ heap' = [heap EXCEPT ![Deref(env, var)] = [@ EXCEPT !.add = Fn("add")]]
    /\ call' = Returned("add=", var, <<>>, Undefined)
    /\ UNCHANGED feVars
    /\ UNCHANGED <<snippet, env, tbound, supplied, console>>

\* obj.add(x, y): a TypeError while add is still undefined
CallAdd(var, x, y) ==
    /\ snippet = "GenericNumber"
    /\ Declared(env, var)
    /\ call' = IF heap[Deref(env, var)].add = Undefined
               THEN Threw("add", var, <<x, y>>)
               ELSE Returned("add", var, <<x, y>>, Plus(x, y))
    /\ UNCHANGED feVars
    /\ UNCHANGED <<snippet, heap, env, tbound, supplied, console>>

(***************************************************************************)
(* class Point { x: number; y: number }, class Point1 { x = 0; y = 0 }     *)
(***************************************************************************)
\* new Point(): the emitted constructor assigns nothing
PointObject == [class |-> "Point", x |-> Undefined, y |-> Undefined]

\* new Point1(): this.x = 0; this.y = 0;
Point1Object == [class |-> "Point1", x |-> Num(0), y |-> Num(0)]

\* pt.x = v, pt.y = v
PutField(h, site, field, v) ==
    [h EXCEPT ![site] = IF field = "x" THEN [@ EXCEPT !.x = v] ELSE [@ EXCEPT !.y = v]]

FieldIndex(field) == IF field = "x" THEN 1 ELSE 2

NewPoint(var) ==
    /\ snippet = "Point"
    /\ ~Declared(env, var)
    /\ heap' = [heap EXCEPT ![var] = IF var = "pt" THEN PointObject ELSE Point1Object]
    /\ env' = [env EXCEPT ![var] = Ref(var)]
    /\ tbound' = [tbound EXCEPT ![var] = <<"number", "number">>]
    /\ supplied' = [supplied EXCEPT ![var] =
            [vals |-> IF var = "pt" THEN <<Undefined, Undefined>> ELSE <<Num(0), Num(0)>>,
             sets |-> FALSE]]
    /\ call' = Returned("Point", var, <<>>, Ref(var))
    /\ UNCHANGED feVars
    /\ UNCHANGED <<snippet, console>>

AssignField(var, field, v) ==
    /\ snippet = "Point"
    /\ Declared(env, var)
    /\ heap' = PutField(heap, Deref(env, var), field, v)
    /\ supplied' = [supplied EXCEPT ![Deref(env, var)] =
            [vals |-> [@.vals EXCEPT ![FieldIndex(field)] = v], sets |-> TRUE]]
    /\ call' = Returned(field \o "=", var, <<v>>, Undefined)
    /\ UNCHANGED feVars
    /\ UNCHANGED <<snippet, env, tbound, console>>

ReadField(var, field) ==
    /\ snippet = "Point"
    /\ Declared(env, var)
    /\ call' = Returned(field, var, <<>>, Stored(heap, Deref(env, var))[FieldIndex(field)])
    /\ UNCHANGED feVars
    /\ UNCHANGED <<snippet, heap, env, tbound, supplied, console>>

(***************************************************************************)
(* let writablePerson: Person; let readonlyPerson: ReadonlyPerson          *)
(***************************************************************************)
\* { name: "Person McPersonface", age: 42 }
PersonLiteral == [class |-> "Person", name |-> Str("Person McPersonface"), age |-> Num(42)]

\* person.age++
IncrementAge(h, site) == [h EXCEPT ![site] = [@ EXCEPT !.age = Num(@.num + 1)]]

DeclareWritablePerson ==
    /\ snippet = "Person"
    /\ ~Declared(env, "writablePerson")
    /\ heap' = [heap EXCEPT !["writablePerson"] = PersonLiteral]
    /\ env' = [env EXCEPT !["writablePerson"] = Ref("writablePerson")]
    /\ tbound' = [tbound EXCEPT !["writablePerson"] = <<"string", "number">>]
    /\ supplied' = [supplied EXCEPT !["writablePerson"] =
            [vals |-> <<PersonLiteral.name, PersonLiteral.age>>, sets |-> FALSE]]
    /\ call' = Returned("Person", "writablePerson", <<>>, Ref("writablePerson"))
    /\ UNCHANGED feVars
    /\ UNCHANGED <<snippet, console>>

\* let readonlyPerson: ReadonlyPerson = { ...writablePerson }: a copy of the
\* object in place of a second reference to it
DeclareReadonlyPerson_Copy ==
    /\ snippet = "Person"
    /\ Declared(env, "writablePerson")
    /\ ~Declared(env, "readonlyPerson")
    /\ heap' = [heap EXCEPT !["readonlyPerson"] = heap[Deref(env, "writablePerson")]]
    /\ env' = [env EXCEPT !["readonlyPerson"] = Ref("readonlyPerson")]
    /\ call' = Returned("alias", "readonlyPerson", <<>>, Ref("readonlyPerson"))
    /\ UNCHANGED feVars
    /\ UNCHANGED <<snippet, tbound, supplied, console>>

\* let readonlyPerson: ReadonlyPerson = writablePerson;
DeclareReadonlyPerson ==
    /\ snippet = "Person"
    /\ Declared(env, "writablePerson")
    /\ ~Declared(env, "readonlyPerson")
    /\ env' = [env EXCEPT !["readonlyPerson"] = env["writablePerson"]]
    /\ call' = Returned("alias", "readonlyPerson", <<>>, env["writablePerson"])
    /\ UNCHANGED feVars
    /\ UNCHANGED <<snippet, heap, tbound, supplied, console>>

\* writablePerson.age++;
WritablePersonAgeIncrement ==
    /\ snippet = "Person"
    /\ Declared(env, "writablePerson")
    /\ heap[Deref(env, "writablePerson")].age.num < MaxAge
    /\ heap' = IncrementAge(heap, Deref(env, "writablePerson"))
    /\ supplied' = [supplied EXCEPT ![Deref(env, "writablePerson")] =
            [vals |-> <<@.vals[1], heap'[Deref(env, "writablePerson")].age>>,
             sets |-> TRUE]]
    /\ call' = Returned("age++", "writablePerson", <<>>, Undefined)
    /\ UNCHANGED feVars
    /\ UNCHANGED <<snippet, env, tbound, console>>

\* console.log(readonlyPerson.age);
LogAge(var) ==
    /\ snippet = "Person"
    /\ Declared(env, var)
    /\ Len(console) < MaxConsole
    /\ console' = ConsoleLog(console, StringOf(heap[Deref(env, var)].age))
    /\ call' = Returned("log age", var, <<>>, Undefined)
    /\ UNCHANGED feVars
    /\ UNCHANGED <<snippet, heap, env, tbound, supplied>>

(***************************************************************************)
(* function myForEach(arr: any[], callback: (elem: any, index: number) =>  *)
(* void)                                                                   *)
(***************************************************************************)
\* the callbacks of the three calls in the source
LogCallbacks == {"logIndex", "logElem", "logElemIndex"}

\* callbacks that close over arr and change it: (elem) => arr.push(elem) and
\* () => arr.pop()
MutatingCallbacks == {"push", "pop"}

Callbacks == LogCallbacks \cup MutatingCallbacks

\* arr[0] in place of arr[i]
ElementAt_First(arr, i) == arr[1]

\* arr[i]
ElementAt(arr, i) == arr[i + 1]

\* the loop condition written i < arr.length - 1
LoopCondition_OffByOne(arr, i) == i < Len(arr) - 1

\* the loop condition i < arr.length
LoopCondition(arr, i) == i < Len(arr)

\* arr after callback(elem, index) has run
ArrAfterCallback(cb, arr, elem, index) ==
    CASE cb = "push" -> Append(arr, elem)
      [] cb = "pop" -> SubSeq(arr, 1, Len(arr) - 1)
      [] OTHER -> arr

\* the console after callback(elem, index) has run
ConsoleAfterCallback(cb, c, elem, index) ==
    CASE cb = "logIndex" -> ConsoleLog(c, NumberToString(index))
      [] cb = "logElem" -> ConsoleLog(c, StringOf(elem))
      [] cb = "logElemIndex" -> ConsoleLog(c, StringOf(elem) \o " " \o StringOf(Num(index)))
      [] OTHER -> c

\* a call myForEach(arr, callback) begins: let i = 0
MyForEachCall(arr, cb) ==
    /\ snippet = "myForEach"
    /\ fePc = "idle"
    /\ fePc' = "loop"
    /\ feArr' = arr
    /\ feArr0' = arr
    /\ feI' = 0
    /\ feCb' = cb
    /\ feCalls' = <<>>
    /\ UNCHANGED <<snippet, heap, env, tbound, supplied, console, call>>

\* one iteration: i < arr.length holds, callback(arr[i], i) runs, then i++
MyForEachIteration ==
    /\ snippet = "myForEach"
    /\ fePc = "loop"
    /\ LoopCondition(feArr, feI)
    /\ feCb = "push" => Len(feArr) < Len(feArr0) + MaxGrow
    /\ feCalls' = Append(feCalls,
            [elem |-> ElementAt(feArr, feI), index |-> feI, arr |-> feArr])
    /\ feArr' = ArrAfterCallback(feCb, feArr, ElementAt(feArr, feI), feI)
    /\ console' = ConsoleAfterCallback(feCb, console, ElementAt(feArr, feI), feI)
    /\ feI' = feI + 1
    /\ UNCHANGED <<snippet, heap, env, tbound, supplied, call, fePc, feCb, feArr0>>

\* i < arr.length fails: myForEach returns
MyForEachReturn ==
    /\ snippet = "myForEach"
    /\ fePc = "loop"
    /\ ~LoopCondition(feArr, feI)
    /\ fePc' = "done"
    /\ UNCHANGED <<snippet, heap, env, tbound, supplied, console, call>>
    /\ UNCHANGED <<feArr, feI, feCb, feArr0, feCalls>>

(***************************************************************************)
(* function longest<Type extends { length: number }>(a: Type, b: Type)     *)
(***************************************************************************)
\* the primitives of longest("alice", "bob") and longest(10, 100), and a
\* string as long as "alice"
LongestInputs == {Str("alice"), Str("bob"), Str("hello"), Num(10), Num(100)}

\* x >= y on lengths: false when either operand is undefined (NaN)
GreaterOrEqual(x, y) == x.tag = "number" /\ y.tag = "number" /\ x.num >= y.num

\* the comparison written a.length > b.length
longest_Strict(h, a, b) ==
    IF LengthOf(h, a).tag = "number" /\ LengthOf(h, b).tag = "number"
            /\ LengthOf(h, a).num > LengthOf(h, b).num
    THEN a ELSE b

\* if (a.length >= b.length) { return a; } else { return b; }
longest(h, a, b) == IF GreaterOrEqual(LengthOf(h, a), LengthOf(h, b)) THEN a ELSE b

\* longest("alice", "bob"), longest(10, 100)
CallLongest(a, b) ==
    /\ snippet = "longest"
    /\ call' = Returned("longest", "", <<a, b>>, longest(heap, a, b))
    /\ UNCHANGED feVars
    /\ UNCHANGED <<snippet, heap, env, tbound, supplied, console>>

\* longest([1, 2], [1, 2, 3]): both array literals are evaluated, then the
\* function is called with the two new arrays
CallLongestArrays(elemsA, elemsB) ==
    /\ snippet = "longest"
    /\ heap' = [heap EXCEPT !["a"] = ArrayObject(elemsA), !["b"] = ArrayObject(elemsB)]
    /\ call' = Returned("longest", "", <<Ref("a"), Ref("b")>>,
                        longest(heap', Ref("a"), Ref("b")))
    /\ UNCHANGED feVars
    /\ UNCHANGED <<snippet, env, tbound, supplied, console>>

(***************************************************************************)
(* function minimumLength<Type extends { length: number }>(obj: Type,      *)
(* minimum: number)                                                        *)
(***************************************************************************)
\* the minimum of minimumLength([1, 2, 3], 6), and minimums around the
\* lengths of the arrays passed
MinimumInputs == 0..(MaxLen + 1) \cup {6}

\* the object literal { length: minimum }
LengthOnlyObject(minimum) == [class |-> "Object", length |-> minimum]

\* return obj; in both branches
minimumLength_SameObject(h, obj, minimum) == obj

\* the value minimumLength returns: obj, or the new { length: minimum }
minimumLength(h, obj, minimum) ==
    IF GreaterOrEqual(LengthOf(h, obj), minimum) THEN obj ELSE Ref("lengthOnly")

\* the heap after minimumLength has run: the else branch evaluates the
\* object literal
HeapAfterMinimumLength(h, obj, minimum) ==
    IF GreaterOrEqual(LengthOf(h, obj), minimum)
    THEN h
    ELSE [h EXCEPT !["lengthOnly"] = LengthOnlyObject(minimum)]

\* target.slice is a function: arrays and strings have the method
HasSlice(h, target) ==
    \/ target.tag = "string"
    \/ target.tag = "object" /\ h[target.ref].class = "Array"

\* the elements of an array as console.log prints them
RECURSIVE JoinElements(_)
JoinElements(elems) ==
    IF Len(elems) = 0 THEN ""
    ELSE IF Len(elems) = 1 THEN StringOf(elems[1])
    ELSE StringOf(elems[1]) \o ", " \o JoinElements(Tail(elems))

\* what console.log prints for a string or an array
InspectLine(h, v) ==
    IF v.tag = "object"
    THEN IF Len(h[v.ref].elems) = 0 THEN "[]"
         ELSE "[ " \o JoinElements(h[v.ref].elems) \o " ]"
    ELSE StringOf(v)

\* const arr = minimumLength([1, 2, 3], 6): the array literal is evaluated,
\* the function is called and its result is bound to arr
CallMinimumLengthArray(elems, minimum) ==
    /\ snippet = "minimumLength"
    /\ ~Declared(env, "arr")
    /\ LET h1 == [heap EXCEPT !["lengthArg"] = ArrayObject(elems)]
       IN  /\ heap' = HeapAfterMinimumLength(h1, Ref("lengthArg"), Num(minimum))
           /\ env' = [env EXCEPT !["arr"] = minimumLength(h1, Ref("lengthArg"), Num(minimum))]
           /\ call' = Returned("minimumLength", "arr", <<Ref("lengthArg"), Num(minimum)>>,
                               minimumLength(h1, Ref("lengthArg"), Num(minimum)))
    /\ UNCHANGED feVars
    /\ UNCHANGED <<snippet, tbound, supplied, console>>

\* const arr = minimumLength(obj, minimum) with a primitive obj
CallMinimumLength(obj, minimum) ==
    /\ snippet = "minimumLength"
    /\ ~Declared(env, "arr")
    /\ heap' = HeapAfterMinimumLength(heap, obj, Num(minimum))
    /\ env' = [env EXCEPT !["arr"] = minimumLength(heap, obj, Num(minimum))]
    /\ call' = Returned("minimumLength", "arr", <<obj, Num(minimum)>>,
                        minimumLength(heap, obj, Num(minimum)))
    /\ UNCHANGED feVars
    /\ UNCHANGED <<snippet, tbound, supplied, console>>

\* console.log(arr.slice(0)): a TypeError when arr has no slice method, and
\* then nothing is printed
LogSlice ==
    /\ snippet = "minimumLength"
    /\ Declared(env, "arr")
    /\ IF HasSlice(heap, env["arr"])
       THEN /\ Len(console) < MaxConsole
            /\ heap' = IF env["arr"].tag = "object"
                       THEN [heap EXCEPT !["sliced"] = heap[env["arr"].ref]]
                       ELSE heap
            /\ console' = ConsoleLog(console, InspectLine(heap, env["arr"]))
            /\ call' = Returned("slice", "arr", <<Num(0)>>,
                            IF env["arr"].tag = "object" THEN Ref("sliced") ELSE env["arr"])
       ELSE /\ call' = Threw("slice", "arr", <<Num(0)>>)
            /\ UNCHANGED <<heap, console>>
    /\ UNCHANGED feVars
    /\ UNCHANGED <<snippet, env, tbound, supplied>>

(***************************************************************************)
(* function makeDate(mOrTimestamp: number, d?: number, y?: number): Date   *)
(***************************************************************************)
\* the numbers of makeDate(12345678), makeDate(5, 5, 5) and makeDate(1, 3)
DateNumbers == {1, 3, 5, 12345678}

\* argument lists of one, two and three numbers
DateArgs ==
    {<<Num(m)>> : m \in DateNumbers}
        \cup {<<Num(m), Num(d)>> : m \in {1, 5}, d \in {3, 5}}
        \cup {<<Num(m), Num(d), Num(y)>> : m \in {1, 5}, d \in {3, 5}, y \in {3, 5}}

\* the value of the k-th parameter: undefined when fewer arguments are passed
Parameter(args, k) == IF k <= Len(args) THEN args[k] ELSE Undefined

\* new Date(value)
DateOfTimestamp(value) == [class |-> "Date", form |-> "timestamp", time |-> value]

\* new Date(year, monthIndex, day)
DateOfYearMonthDay(year, monthIndex, day) ==
    [class |-> "Date", form |-> "components", year |-> year, month |-> monthIndex,
     day |-> day]

\* if (d !== undefined && y !== undefined) { return new Date(y, mOrTimestamp, d); }
\* else { return new Date(mOrTimestamp); }
makeDate(mOrTimestamp, d, y) ==
    IF d # Undefined /\ y # Undefined
    THEN DateOfYearMonthDay(y, mOrTimestamp, d)
    ELSE DateOfTimestamp(mOrTimestamp)

\* const d1 = makeDate(12345678); const d2 = makeDate(5, 5, 5);
\* const d3 = makeDate(1, 3);
CallMakeDate(args) ==
    /\ snippet = "makeDate"
    /\ heap' = [heap EXCEPT !["date"] =
            makeDate(Parameter(args, 1), Parameter(args, 2), Parameter(args, 3))]
    /\ call' = Returned("makeDate", "", args, Ref("date"))
    /\ UNCHANGED feVars
    /\ UNCHANGED <<snippet, env, tbound, supplied, console>>

(***************************************************************************)
(* class Greeter { readonly name: string = "world"; ... }                  *)
(***************************************************************************)
\* what new Greeter(...) is given: nothing, or a string
OtherNames == {Undefined} \cup {Str(n) : n \in Strs}

\* this.name = "world"; if (otherName !== undefined) { this.name = otherName; }
GreeterObject(otherName) ==
    [class |-> "Greeter", name |-> IF otherName # Undefined THEN otherName ELSE Str("world")]

\* this.name = v, g.name = v
PutName(h, site, v) == [h EXCEPT ![site] = [@ EXCEPT !.name = v]]

\* const g = new Greeter(otherName)
NewGreeter(otherName) ==
    /\ snippet = "Greeter"
    /\ ~Declared(env, "g")
    /\ heap' = [heap EXCEPT !["g"] = GreeterObject(otherName)]
    /\ env' = [env EXCEPT !["g"] = Ref("g")]
    /\ tbound' = [tbound EXCEPT !["g"] = <<"string">>]
    /\ supplied' = [supplied EXCEPT !["g"] =
            [vals |-> <<GreeterObject(otherName).name>>, sets |-> FALSE]]
    /\ call' = Returned("Greeter", "g", <<otherName>>, Ref("g"))
    /\ UNCHANGED feVars
    /\ UNCHANGED <<snippet, console>>

\* g.err(): this.name = "not ok";
err ==
    /\ snippet = "Greeter"
    /\ Declared(env, "g")
    /\ heap' = PutName(heap, Deref(env, "g"), Str("not ok"))
    /\ call' = Returned("err", "g", <<>>, Undefined)
    /\ UNCHANGED feVars
    /\ UNCHANGED <<snippet, env, tbound, supplied, console>>

\* g.name = "also not ok";
AssignName ==
    /\ snippet = "Greeter"
    /\ Declared(env, "g")
    /\ heap' = PutName(heap, Deref(env, "g"), Str("also not ok"))
    /\ call' = Returned("name=", "g", <<Str("also not ok")>>, Undefined)
    /\ UNCHANGED feVars
    /\ UNCHANGED <<snippet, env, tbound, supplied, console>>

(***************************************************************************)
(* interface Home { readonly resident: { name: string; age: number } }     *)
(***************************************************************************)
\* a resident { name, age }
ResidentObject(name, age) == [class |-> "Resident", name |-> name, age |-> age]

\* a Home { resident }
HomeObject(resident) == [class |-> "Home", resident |-> resident]

\* { name: "Victor the Evictor", age: 42 }
EvictorLiteral == ResidentObject(Str("Victor the Evictor"), Num(42))

\* home.resident
ResidentOf(h, home) == h[home.ref].resident

\* `Happy birthday ${home.resident.name}!`
BirthdayLine(h, home) ==
    "Happy birthday " \o StringOf(h[ResidentOf(h, home).ref].name) \o "!"

\* home.resident = resident
PutResident(h, home, resident) ==
    [h EXCEPT ![home.ref] = [@ EXCEPT !.resident = resident]]

\* a Home object is created to be handed to visitForBirthday and evict
NewHome(name, age) ==
    /\ snippet = "Home"
    /\ ~Allocated(heap, "home")
    /\ heap' = [heap EXCEPT !["resident"] = ResidentObject(name, age),
                            !["home"] = HomeObject(Ref("resident"))]
    /\ call' = Returned("Home", "", <<>>, Ref("home"))
    /\ UNCHANGED feVars
    /\ UNCHANGED <<snippet, env, tbound, supplied, console>>

\* visitForBirthday(home)
visitForBirthday(home) ==
    /\ snippet = "Home"
    /\ Allocated(heap, home.ref)
    /\ Len(console) < MaxVisits
    /\ console' = ConsoleLog(console, BirthdayLine(heap, home))
    /\ heap' = IncrementAge(heap, ResidentOf(heap, home).ref)
    /\ call' = Returned("visitForBirthday", "", <<home>>, Undefined)
    /\ UNCHANGED feVars
    /\ UNCHANGED <<snippet, env, tbound, supplied>>

\* evict(home): the object literal is evaluated and assigned to home.resident
evict(home) ==
    /\ snippet = "Home"
    /\ Allocated(heap, home.ref)
    /\ heap' = PutResident([heap EXCEPT !["evictor"] = EvictorLiteral], home, Ref("evictor"))
    /\ call' = Returned("evict", "", <<home>>, Undefined)
    /\ UNCHANGED feVars
    /\ UNCHANGED <<snippet, env, tbound, supplied, console>>

(***************************************************************************)
(* type Shape = Circle | Square | Triangle; getArea                        *)
(***************************************************************************)
ShapeKinds == {"circle", "square", "triangle"}

\* { kind: "circle", radius }, { kind: "square", sideLength },
\* { kind: "triangle", sideLength }
ShapeObject(kind, n) ==
    IF kind = "circle"
    THEN [class |-> "Object", kind |-> kind, radius |-> Num(n)]
    ELSE [class |-> "Object", kind |-> kind, sideLength |-> Num(n)]

\* the number Math.PI * n, kept as the multiple of pi it is
PiTimes(n) == [tag |-> "number", piTimes |-> n]

\* the branch switch (shape.kind) takes when a default clause is present
SwitchBranch(kind) ==
    CASE kind = "circle" -> "circle"
      [] kind = "square" -> "square"
      [] OTHER -> "default"

\* the square case written shape.sideLength * 2
getAreaExhaustive_Doubled(h, shape) ==
    CASE h[shape.ref].kind = "circle" -> PiTimes(h[shape.ref].radius.num * h[shape.ref].radius.num)
      [] h[shape.ref].kind = "square" -> Num(h[shape.ref].sideLength.num * 2)
      [] OTHER -> shape

\* getArea with the default clause: const _exhaustiveCheck: never = shape;
\* return _exhaustiveCheck;
getAreaExhaustive(h, shape) ==
    CASE h[shape.ref].kind = "circle" -> PiTimes(h[shape.ref].radius.num * h[shape.ref].radius.num)
      [] h[shape.ref].kind = "square" ->
            Num(h[shape.ref].sideLength.num * h[shape.ref].sideLength.num)
      [] OTHER -> shape

\* getArea without a default clause: no case matches, the function ends
\* without a return
getAreaSwitch(h, shape) ==
    CASE h[shape.ref].kind = "circle" -> PiTimes(h[shape.ref].radius.num * h[shape.ref].radius.num)
      [] h[shape.ref].kind = "square" ->
            Num(h[shape.ref].sideLength.num * h[shape.ref].sideLength.num)
      [] OTHER -> Undefined

\* a shape object is created to be handed to getArea
NewShape(kind, n) ==
    /\ snippet = "getArea"
    /\ ~Allocated(heap, "shape")
    /\ heap' = [heap EXCEPT !["shape"] = ShapeObject(kind, n)]
    /\ call' = Returned("{}", "", <<>>, Ref("shape"))
    /\ UNCHANGED feVars
    /\ UNCHANGED <<snippet, env, tbound, supplied, console>>

\* getArea(shape), the version with case "circle" and case "square" only
CallGetAreaSwitch(shape) ==
    /\ snippet = "getArea"
    /\ Allocated(heap, shape.ref)
    /\ call' = [op |-> "getAreaSwitch", via |-> "", args |-> <<shape>>,
                ret |-> getAreaSwitch(heap, shape), threw |-> FALSE,
                branch |-> IF heap[shape.ref].kind \in {"circle", "square"}
                           THEN heap[shape.ref].kind ELSE "none"]
    /\ UNCHANGED feVars
    /\ UNCHANGED <<snippet, heap, env, tbound, supplied, console>>

\* getArea(shape), the version with the default clause
CallGetAreaExhaustive(shape) ==
    /\ snippet = "getArea"
    /\ Allocated(heap, shape.ref)
    /\ call' = [op |-> "getAreaExhaustive", via |-> "", args |-> <<shape>>,
                ret |-> getAreaExhaustive(heap, shape), threw |-> FALSE,
                branch |-> SwitchBranch(heap[shape.ref].kind)]
    /\ UNCHANGED feVars
    /\ UNCHANGED <<snippet, heap, env, tbound, supplied, console>>

(***************************************************************************)
(* Properties                                                              *)
(***************************************************************************)
\* the object the most recent call went through
CallSite == Deref(env, call.via)

IdentityOps == {"numberIdentity", "anyIdentity", "genericIdentity", "identity", "identityTwo"}

\* value equality: the same primitive, or objects with equal members in the
\* same order
ValueEqual(h, a, b) ==
    IF a.tag = "object" /\ b.tag = "object" THEN h[a.ref] = h[b.ref] ELSE a = b

\* C1: each identity function (numberIdentity, anyIdentity, genericIdentity,
\* identity, identityTwo) returns a value equal to its argument and of the
\* same type; for an array the result has the same elements in the same order.
C1_IdentityReturnsArgument ==
    call.op \in IdentityOps =>
        /\ ~call.threw
        /\ TypeOf(call.ret) = TypeOf(call.args[1])
        /\ ValueEqual(heap, call.ret, call.args[1])

C1_Witness ==
    /\ call.op = "genericIdentity"
    /\ call.args[1] = Ref("arr")
    /\ Len(heap["arr"].elems) = 3
    /\ call.ret.tag = "object"
    /\ heap[call.ret.ref].elems = heap["arr"].elems

\* C2: the first read of a GenericBox created as { contents: v }, with no set
\* in between, returns v.
C2_ReadAfterCreate ==
    (call.op = "contents" /\ ~supplied[CallSite].sets) =>
        call.ret = supplied[CallSite].vals[1]

C2_Witness ==
    /\ call.op = "contents"
    /\ ~supplied[CallSite].sets
    /\ call.ret = Str("hello")

\* C3: a read returns the value of the most recent set: after setContents(box,
\* v2) box.contents is v2, and after setKeyValue(k2, v2) display prints k2 and v2.
C3_ReadAfterSet ==
    /\ call.op \in {"setContents", "setContentsOverloaded"} =>
            GetContents(heap, CallSite) = call.args[1]
    /\ (call.op = "contents" /\ supplied[CallSite].sets) =>
            call.ret = supplied[CallSite].vals[1]
    /\ (call.op = "display" /\ supplied[CallSite].sets) =>
            console[Len(console)] =
                "Key = " \o StringOf(supplied[CallSite].vals[1])
                    \o ", Val = " \o StringOf(supplied[CallSite].vals[2])

C3_Witness ==
    \/ /\ call.op = "contents"
       /\ supplied[CallSite].sets
       /\ call.ret = Num(1)
       /\ tbound[CallSite] = <<"number">>
    \/ /\ call.op = "display"
       /\ supplied[CallSite].sets
       /\ console[Len(console)] = "Key = 1, Val = hello"

\* a container that was constructed without a value and never set
Uninitialized(site) ==
    /\ ~supplied[site].sets
    /\ \A k \in 1..Len(supplied[site].vals) : supplied[site].vals[k] = Undefined

\* C4 as stated: reading a container constructed with no initial value, before
\* any set, fails with an error and yields no value (KeyValuePair.display,
\* GenericNumber.zeroValue).
C4_UninitializedReadFails ==
    (call.op \in {"display", "zeroValue"} /\ Uninitialized(CallSite)) => call.threw

\* C4 amended: reading before any set does not fail: display prints
\* "Key = undefined, Val = undefined" and zeroValue reads as undefined.
C4_UninitializedReadsUndefined ==
    /\ (call.op = "display" /\ Uninitialized(CallSite)) =>
            /\ ~call.threw
            /\ console[Len(console)] = "Key = undefined, Val = undefined"
    /\ (call.op = "zeroValue" /\ Uninitialized(CallSite)) =>
            /\ ~call.threw
            /\ call.ret = Undefined

C4_Witness ==
    /\ call.op = "display"
    /\ Uninitialized(CallSite)
    /\ console = <<"Key = undefined, Val = undefined">>

\* the slot of the container that an assignment writes
SlotOf(op) == IF op = "y=" THEN 2 ELSE 1

AssignOps == {"setContents", "setContentsOverloaded", "x=", "y=", "zeroValue="}

\* the most recent call assigned a value whose type is not the declared one
Mismatched ==
    /\ call.op \in AssignOps
    /\ TypeOf(call.args[1]) # tbound[CallSite][SlotOf(call.op)]

\* C5: assigning a value whose type differs from the type the container was
\* bound to is rejected with an error at the assignment, and the mismatched
\* value is not stored (pt.y = 'hello', setContents on a number box with a
\* string).
C5_MismatchRejected ==
    Mismatched =>
        /\ call.threw
        /\ Stored(heap, CallSite)[SlotOf(call.op)] # call.args[1]

\* C6: the value held by a container always has the type the container was
\* created with.
C6_TypePreserved ==
    \A site \in Sites : \A k \in 1..Len(tbound[site]) :
        Stored(heap, site)[k] # Undefined =>
            TypeOf(Stored(heap, site)[k]) = tbound[site][k]

\* operations that write a container
WriteOps == AssignOps \cup {"setKeyValue", "age++"}

\* what is read through a variable
ReadThrough(h, e, var) == Stored(h, Deref(e, var))

\* C7 as stated: a set through one container variable never changes what is
\* read through another variable.
C7_VariablesIndependent ==
    [][call'.op \in WriteOps =>
        \A y \in VarNames \ {call'.via} :
            Declared(env, y) =>
                ReadThrough(heap', env', y) = ReadThrough(heap, env, y)]_vars

\* C7 amended: a set through one variable never changes what is read through
\* a variable bound to a different object; two variables bound to the same
\* object (readonlyPerson = writablePerson) read the same values.
C7_ObjectsIndependent ==
    [][call'.op \in WriteOps =>
        \A y \in VarNames \ {call'.via} :
            Declared(env, y) =>
                IF Deref(env, call'.via) # Deref(env, y)
                THEN ReadThrough(heap', env', y) = ReadThrough(heap, env, y)
                ELSE ReadThrough(heap', env', y) = ReadThrough(heap', env', call'.via)]_vars

C7_Witness ==
    /\ call.op = "setKeyValue"
    /\ call.via = "kvp1"
    /\ Declared(env, "kvp2")
    /\ supplied["kvp2"].sets
    /\ ReadThrough(heap, env, "kvp2") # ReadThrough(heap, env, "kvp1")

PureOps == IdentityOps \cup {"contents", "zeroValue", "x", "y"}

LoggingOps == {"loggingIdentity", "loggingIdentityLengthOnly", "display"}

\* C9 as stated: the identity and read operations leave every stored value
\* and the console output unchanged, and an identity function returns the
\* very object it was given.
C9_ReadsHaveNoEffect ==
    [][call'.op \in PureOps \cup LoggingOps =>
        /\ heap' = heap
        /\ console' = console
        /\ call'.op \notin {"contents", "zeroValue", "x", "y", "display"} =>
                call'.ret = call'.args[1]]_vars

\* C9 amended: the identity and read operations leave every stored value
\* unchanged and an identity function returns the very object it was given;
\* loggingIdentity, loggingIdentityLengthOnly and display append exactly one
\* line to the console, the others leave the console unchanged.
C9_ReadsOnlyLog ==
    [][call'.op \in PureOps \cup LoggingOps =>
        /\ heap' = heap
        /\ env' = env
        /\ IF call'.op \in LoggingOps
           THEN Len(console') = Len(console) + 1
                    /\ SubSeq(console', 1, Len(console)) = console
           ELSE console' = console
        /\ call'.op \notin {"contents", "zeroValue", "x", "y", "display"} =>
                call'.ret = call'.args[1]]_vars

C9_Witness ==
    /\ call.op = "loggingIdentity"
    /\ call.args[1] = Ref("arr")
    /\ call.ret = Ref("arr")
    /\ console = <<"3">>

\* the invocations callback(arr[i], i) for every index i of arr, in order
OncePerIndex(arr) == [k \in 1..Len(arr) |-> <<arr[k], k - 1>>]

\* the arguments of the invocations made
CallArguments == [k \in 1..Len(feCalls) |-> <<feCalls[k].elem, feCalls[k].index>>]

\* C10 as stated: myForEach(arr, callback) invokes callback exactly once for
\* each index of arr, in increasing order, with (arr[i], i).
C10_OncePerIndex ==
    fePc = "done" => CallArguments = OncePerIndex(feArr0)

\* C10 amended: the invocations carry the indices 0, 1, 2, ... in increasing
\* order, none twice, each with (arr[i], i) for an index i below arr.length as
\* arr stands at that invocation; when the callback does not change arr this
\* is exactly once for each index of arr.
C10_ConsecutiveIndices ==
    /\ \A k \in 1..Len(feCalls) :
            /\ feCalls[k].index = k - 1
            /\ feCalls[k].index < Len(feCalls[k].arr)
            /\ feCalls[k].elem = feCalls[k].arr[feCalls[k].index + 1]
    /\ (fePc = "done" /\ feCb \in LogCallbacks) => CallArguments = OncePerIndex(feArr0)

C10_Witness ==
    /\ fePc = "done"
    /\ feCb = "logElemIndex"
    /\ feArr0 = <<Num(1), Num(2), Num(3)>>
    /\ Len(feCalls) = 3
    /\ console = <<"1 0", "2 1", "3 2">>

\* C11 as stated: when myForEach(arr, callback) has returned, callback has been
\* invoked exactly as many times as arr had elements when the call began, also
\* when the callback appends to or removes from arr.
C11_AsManyCallsAsElements ==
    fePc = "done" => Len(feCalls) = Len(feArr0)

\* C11 amended: myForEach returns for every finite arr whose callback does not
\* append to arr; with a callback that leaves arr alone it returns after
\* exactly as many invocations as arr has elements; with a callback that
\* removes the last element on every invocation it returns after half as
\* many, rounded up; with a callback that appends an element on every
\* invocation it never returns unless arr was empty.
C11_ReturnsUnlessAppending ==
    /\ (fePc = "loop" /\ feCb # "push") ~> (fePc = "done")
    /\ []((fePc = "done" /\ feCb \in LogCallbacks) => Len(feCalls) = Len(feArr0))
    /\ []((fePc = "done" /\ feCb = "pop") => Len(feCalls) = (Len(feArr0) + 1) \div 2)
    /\ []((feCb = "push" /\ feArr0 # <<>>) => fePc # "done")

C11_Witness ==
    /\ fePc = "done"
    /\ feCb = "pop"
    /\ feArr0 = <<Num(1), Num(2), Num(3)>>
    /\ feArr = <<Num(1)>>
    /\ Len(feCalls) = 2

\* the larger of two numbers
Max(x, y) == IF x >= y THEN x ELSE y

\* the length of a value handed to or returned by the most recent call
CallLength(v) == LengthOf(heap, v)

Fields(obj) == DOMAIN obj \ {"class"}

\* the kind of a value: its class for an object, its type otherwise
KindOf(h, v) == IF v.tag = "object" THEN h[v.ref].class ELSE v.tag

\* C13: minimumLength(obj, minimum) returns obj itself when obj.length >=
\* minimum and otherwise a new object whose only field is length = minimum, so
\* the result's length is at least minimum; in the second case the result is
\* not the kind of object the argument is, and arr.slice(0) on it fails
\* (minimumLength([1, 2, 3], 6) yields { length: 6 }).
C13_MinimumLength ==
    /\ call.op = "minimumLength" =>
        /\ GreaterOrEqual(CallLength(call.ret), call.args[2])
        /\ IF GreaterOrEqual(CallLength(call.args[1]), call.args[2])
           THEN call.ret = call.args[1]
           ELSE /\ call.ret # call.args[1]
                /\ call.ret.tag = "object"
                /\ Fields(heap[call.ret.ref]) = {"length"}
                /\ heap[call.ret.ref].length = call.args[2]
                /\ KindOf(heap, call.ret) # KindOf(heap, call.args[1])
    /\ (call.op = "slice" /\ env["arr"] = Ref("lengthOnly")) =>
        /\ call.threw
        /\ console = <<>>

C13_Witness ==
    /\ call.op = "slice"
    /\ call.threw
    /\ heap["lengthArg"].elems = <<Num(1), Num(2), Num(3)>>
    /\ env["arr"] = Ref("lengthOnly")
    /\ heap["lengthOnly"] = [class |-> "Object", length |-> Num(6)]

\* the most recent call returned a Date
ReturnedDate ==
    /\ ~call.threw
    /\ call.ret.tag = "object"
    /\ heap[call.ret.ref].class = "Date"

\* C14: makeDate(timestamp) yields Date(timestamp), makeDate(m, d, y) yields
\* Date(y, m, d), and a call with exactly two arguments such as makeDate(1, 3)
\* is rejected and produces no Date.
C14_TwoArgumentsRejected ==
    call.op = "makeDate" =>
        /\ Len(call.args) = 1 =>
                ReturnedDate /\ heap[call.ret.ref] = DateOfTimestamp(call.args[1])
        /\ Len(call.args) = 3 =>
                /\ ReturnedDate
                /\ heap[call.ret.ref] =
                        DateOfYearMonthDay(call.args[3], call.args[1], call.args[2])
        /\ Len(call.args) = 2 => ~ReturnedDate

\* C15: the readonly field name of a Greeter is never assigned outside the
\* constructor: after construction it equals otherName when one was passed and
\* "world" otherwise, and neither err() nor an assignment g.name = ... from
\* outside changes it.
C15_ReadonlyNameKept ==
    /\ call.op = "Greeter" =>
            heap["g"].name =
                IF call.args[1] # Undefined THEN call.args[1] ELSE Str("world")
    /\ Declared(env, "g") => heap[Deref(env, "g")].name = supplied["g"].vals[1]

\* the resident object of the home
Resident(h) == h[ResidentOf(h, Ref("home")).ref]

\* C16: the readonly property resident of a Home is never re-written: after
\* any sequence of visitForBirthday and evict calls home.resident is the
\* resident object the home started with; visitForBirthday increases
\* home.resident.age by exactly 1 per call and leaves resident.name unchanged.
C16_ResidentNeverRewritten ==
    /\ [](Allocated(heap, "home") => ResidentOf(heap, Ref("home")) = Ref("resident"))
    /\ [][call'.op = "visitForBirthday" =>
            /\ Resident(heap').age = Num(Resident(heap).age.num + 1)
            /\ Resident(heap').name = Resident(heap).name]_vars

\* person.age read through a variable
AgeThrough(h, e, var) == h[Deref(e, var)].age

\* C17: readonlyPerson and writablePerson denote the same object, so
\* readonlyPerson.age = writablePerson.age in every state: console.log(
\* readonlyPerson.age) prints 42 before writablePerson.age++ and 43 after it,
\* although readonlyPerson declares age readonly.
C17_SameObject ==
    /\ [](Declared(env, "readonlyPerson") =>
            /\ env["readonlyPerson"] = env["writablePerson"]
            /\ AgeThrough(heap, env, "readonlyPerson")
                    = AgeThrough(heap, env, "writablePerson"))
    /\ []((call.op = "log age" /\ call.via = "readonlyPerson") =>
            console[Len(console)] =
                IF supplied["writablePerson"].sets
                THEN StringOf(supplied["writablePerson"].vals[2])
                ELSE "42")
    /\ [][(call'.op = "age++" /\ Declared(env, "readonlyPerson")) =>
            AgeThrough(heap', env', "readonlyPerson").num
                = AgeThrough(heap, env, "readonlyPerson").num + 1]_vars

C17_Witness ==
    /\ call.op = "log age"
    /\ call.via = "readonlyPerson"
    /\ supplied["writablePerson"].sets
    /\ AgeThrough(heap, env, "writablePerson") = Num(43)
    /\ console = <<"43">>

\* the shape handed to the most recent getArea call
CallShape == heap[call.args[1].ref]

\* C18: for a shape whose kind is "circle" or "square" getArea takes one of
\* the two case branches and never the default branch, and returns sideLength
\* squared for a square; called with a triangle, the getArea that has a
\* default clause takes it and returns the shape object itself, not a number.
C18_GetAreaBranches ==
    call.op \in {"getAreaSwitch", "getAreaExhaustive"} =>
        /\ CallShape.kind \in {"circle", "square"} =>
                /\ call.branch = CallShape.kind
                /\ call.ret.tag = "number"
        /\ CallShape.kind = "square" =>
                call.ret = Num(CallShape.sideLength.num * CallShape.sideLength.num)
        /\ (call.op = "getAreaExhaustive" /\ CallShape.kind = "triangle") =>
                /\ call.branch = "default"
                /\ call.ret = call.args[1]
                /\ call.ret.tag # "number"

C18_Witness ==
    /\ call.op = "getAreaExhaustive"
    /\ heap["shape"] = [class |-> "Object", kind |-> "triangle", sideLength |-> Num(3)]
    /\ call.branch = "default"
    /\ call.ret = Ref("shape")

Next ==
    \/ \E elems \in ArrayInputs : EvalArrayLiteral(elems)
    \/ \E n \in LengthInputs : EvalObjectLiteral(n)
    \/ \E arg \in ArgValues : CallNumberIdentity(arg)
    \/ \E arg \in ArgValues : CallAnyIdentity(arg)
    \/ \E arg \in ArgValues : CallGenericIdentity(arg)
    \/ \E arg \in ArgValues : CallIdentity(arg)
    \/ \E arg \in ArgValues : CallIdentityTwo(arg)
    \/ \E arg \in ArgValues : CallLoggingIdentity(arg)
    \/ \E arg \in ArgValues : CallLoggingIdentityLengthOnly(arg)
    \/ \E var \in BoxSites, v \in InputValues : NewGenericBox(var, v)
    \/ \E var \in BoxSites : ReadContents(var)
    \/ \E var \in BoxSites, v \in InputValues : setContents(var, v)
    \/ \E var \in BoxSites, v \in InputValues : setContentsOverloaded(var, v)
    \/ \E var \in KvpSites : NewKeyValuePair(var)
    \/ \E var \in KvpSites, k \in InputValues, v \in InputValues : setKeyValue(var, k, v)
    \/ \E var \in KvpSites : display(var)
    \/ \E var \in NumericSites : NewGenericNumber(var)
    \/ \E var \in NumericSites, v \in InputValues : AssignZeroValue(var, v)
    \/ \E var \in NumericSites : ReadZeroValue(var)
    \/ \E var \in NumericSites : AssignAdd(var)
    \/ \E var \in NumericSites, x \in InputValues, y \in InputValues : CallAdd(var, x, y)
    \/ \E var \in PointSites : NewPoint(var)
    \/ \E var \in PointSites, f \in {"x", "y"}, v \in InputValues : AssignField(var, f, v)
    \/ \E var \in PointSites, f \in {"x", "y"} : ReadField(var, f)
    \/ DeclareWritablePerson
    \/ DeclareReadonlyPerson
    \/ WritablePersonAgeIncrement
    \/ \E var \in PersonVars : LogAge(var)
    \/ \E arr \in ArrayInputs, cb \in Callbacks :
            MyForEachCall(arr, cb)
    \/ MyForEachIteration
    \/ MyForEachReturn
    \/ \E a \in LongestInputs, b \in LongestInputs : CallLongest(a, b)
    \/ \E elemsA \in ArrayInputs, elemsB \in ArrayInputs : CallLongestArrays(elemsA, elemsB)
    \/ \E elems \in ArrayInputs, minimum \in MinimumInputs :
            CallMinimumLengthArray(elems, minimum)
    \/ \E obj \in InputValues, minimum \in MinimumInputs : CallMinimumLength(obj, minimum)
    \/ LogSlice
    \/ \E args \in DateArgs : CallMakeDate(args)
    \/ \E otherName \in OtherNames : NewGreeter(otherName)
    \/ err
    \/ AssignName
    \/ \E name \in Strs, age \in Nums : NewHome(Str(name), Num(age))
    \/ visitForBirthday(Ref("home"))
    \/ evict(Ref("home"))
    \/ \E kind \in ShapeKinds, n \in 0..MaxSide : NewShape(kind, n)
    \/ CallGetAreaSwitch(Ref("shape"))
    \/ CallGetAreaExhaustive(Ref("shape"))

Spec == Init /\ [][Next]_vars

\* myForEach runs synchronously to completion: while the loop can take a step
\* it takes it
FairSpec == Spec /\ WF_vars(MyForEachIteration) /\ WF_vars(MyForEachReturn)

====
